---- MODULE Spec2Model ----
(***************************************************************************)
(* creative-ark: the streaming chat flow of ChatInterface (sendMessage,    *)
(* regenerateMessage, deleteMessage, clearChat) with its server-sent-event *)
(* decode loop, and the image generation flow of ImageGeneration           *)
(* (handleGenerate, generateImageWithAPI with asynchronous task polling).  *)
(*                                                                         *)
(* Text is a sequence of one-character strings, so that the decode loop    *)
(* (split on newline, startsWith, slice, JSON.parse) is modelled on the    *)
(* characters it sees and a network chunk may end anywhere.                *)
(***************************************************************************)
EXTENDS Integers, Sequences, FiniteSets, TLC

VARIABLES
    messages,       \* ChatInterface state `messages`
    chat_history,   \* localStorage key 'chat_history'
    loading,        \* ChatInterface state `loading`
    now,            \* the value Date.now() returned last
    flow,           \* the running sendMessage / regenerateMessage calls
    ops,            \* user actions taken so far in the chat view
    imgPc,          \* position of the running handleGenerate call
    imgLoading,     \* ImageGeneration state `loading`
    history,        \* ImageGeneration state `history`
    image_generation_history, \* localStorage key 'image_generation_history'
    poll,           \* locals of the task polling loop
    imgResult,      \* what the last handleGenerate call ended with
    imgCall,        \* the running generateImageWithAPI call: arguments and request
    imgBuild,       \* which of the two ImageGeneration sources is built
    currentMode,    \* App state `currentMode`: the view that is shown
    providersConfig,    \* models.ts `providersConfig`
    configInitialized,  \* models.ts `configInitialized`
    initPc,         \* position of each initializeConfig call
    api_config,     \* localStorage key 'api_config': provider -> encrypted key
    configs,        \* ApiConfig state `configs`
    cfgLog,         \* fetches of /providers.json, assignments, keys set
    deploy,         \* the catalog file and the environment of the build
    uploadedFiles,  \* state `uploadedFiles` of the view
    readers,        \* files whose FileReader has not fired onload yet
    selected,       \* files selected so far
    generationHistory,   \* GenerationHistory: prop chatType and its three lists
    text_chat_history,   \* localStorage key 'text_chat_history'
    vision_chat_history  \* localStorage key 'vision_chat_history'

chatVars == <<messages, chat_history, loading, now, flow, ops>>
imgVars  == <<imgPc, imgLoading, history, image_generation_history, poll, imgResult,
              imgCall>>
appVars  == <<imgBuild, currentMode>>
cfgVars  == <<providersConfig, configInitialized, initPc, api_config, configs, cfgLog,
              deploy>>
upVars   == <<uploadedFiles, readers, selected>>
pageVars == <<generationHistory, text_chat_history, vision_chat_history>>
vars     == <<messages, chat_history, loading, now, flow, ops,
              imgPc, imgLoading, history, image_generation_history, poll, imgResult,
              imgCall, imgBuild, currentMode,
              providersConfig, configInitialized, initPc, api_config, configs, cfgLog,
              deploy, uploadedFiles, readers, selected,
              generationHistory, text_chat_history, vision_chat_history>>

\* the handlers of a view run while the App shows it; the build, the view,
\* the configuration, the pending uploads and the history page stay as they
\* are
InView(mode) == currentMode = mode /\ UNCHANGED <<appVars, cfgVars, upVars, pageVars>>

----------------------------------------------------------------------------
(* Bounds of the model *)

MaxFiles  == 4      \* files the user selects
MaxEvents == 2      \* events in a response body (decoder specification)
MaxMsgs   == 3      \* a send is not started once the session made this many messages
MaxNow    == 1      \* the latest time Date.now() returns
MaxOps    == 2      \* user actions in the chat view
MaxPolls  == 3      \* status queries after which the model stops polling

Flows == {1, 2}     \* slots for overlapping calls of the async handlers

----------------------------------------------------------------------------
(* Characters and text helpers *)

NL == "\n"

Letters == {"x", "y"}

DataPrefix == <<"d", "a", "t", "a", ":", " ">>

DoneSentinel == <<"[", "D", "O", "N", "E", "]">>

RECURSIVE Concat(_)
Concat(ss) == IF ss = <<>> THEN <<>> ELSE Head(ss) \o Concat(Tail(ss))

startsWith(s, p) == Len(s) >= Len(p) /\ SubSeq(s, 1, Len(p)) = p

slice(s, n) == SubSeq(s, n + 1, Len(s))

RECURSIVE SplitFrom(_, _)
SplitFrom(s, cur) ==
    IF s = <<>> THEN <<cur>>
    ELSE IF Head(s) = NL THEN <<cur>> \o SplitFrom(Tail(s), <<>>)
    ELSE SplitFrom(Tail(s), Append(cur, Head(s)))

\* chunk.split('\n')
split(s) == SplitFrom(s, <<>>)

RECURSIVE trimStart(_)
trimStart(s) == IF s # <<>> /\ Head(s) = " " THEN trimStart(Tail(s)) ELSE s

RECURSIVE trimEnd(_)
trimEnd(s) ==
    IF s # <<>> /\ s[Len(s)] = " " THEN trimEnd(SubSeq(s, 1, Len(s) - 1)) ELSE s

trim(s) == trimEnd(trimStart(s))

\* JSON.parse on the event payloads of this model: the text {c1..cn} stands
\* for {"choices":[{"delta":{"content":"c1..cn"}}]}, {} for an event without
\* delta text; every other text is not JSON and makes JSON.parse throw.
JSONparse(data) ==
    IF /\ Len(data) >= 2
       /\ data[1] = "{"
       /\ data[Len(data)] = "}"
       /\ \A i \in 2..(Len(data) - 1) : data[i] \in Letters
    THEN [ok |-> TRUE, content |-> SubSeq(data, 2, Len(data) - 1)]
    ELSE [ok |-> FALSE, content |-> <<>>]

----------------------------------------------------------------------------
(* Message lists *)

\* a message; images is <<>> for a message that has no `images` or an empty one
Message(i, r, c) == [id |-> i, role |-> r, content |-> c, images |-> <<>>]

\* prev.map(msg => msg.id === id ? { ...msg, content } : msg)
MapContent(msgs, i, c) ==
    [k \in 1..Len(msgs) |->
        IF msgs[k].id = i THEN [msgs[k] EXCEPT !.content = c] ELSE msgs[k]]

\* a filter that stops at the first entry it drops
FilterOutFirst(msgs, i) ==
    IF \A k \in 1..Len(msgs) : msgs[k].id # i
    THEN msgs
    ELSE LET j == CHOOSE j \in 1..Len(msgs) :
                     msgs[j].id = i /\ \A k \in 1..(j - 1) : msgs[k].id # i
         IN  SubSeq(msgs, 1, j - 1) \o SubSeq(msgs, j + 1, Len(msgs))

\* messages.filter(msg => msg.id !== messageId)
FilterOut(msgs, i) == SelectSeq(msgs, LAMBDA m : m.id # i)

\* messages.findIndex(msg => msg.id === messageId), 0 when there is none
findIndex(msgs, i) ==
    IF \E k \in 1..Len(msgs) : msgs[k].id = i
    THEN CHOOSE k \in 1..Len(msgs) :
            /\ msgs[k].id = i
            /\ \A j \in 1..(k - 1) : msgs[j].id # i
    ELSE 0

ContentsOf(msgs, i) == {msgs[k].content : k \in {j \in 1..Len(msgs) : msgs[j].id = i}}

\* the messages made since the view was opened: a stored message has an
\* id from before
SessionLen(msgs) == Cardinality({k \in 1..Len(msgs) : msgs[k].id >= 0})

Stored(list) == [present |-> TRUE, items |-> list]

NoItem == [present |-> FALSE, items |-> <<>>]

----------------------------------------------------------------------------
(* Response bodies: what the provider may send *)

Events == {"dx", "dy", "d0", "done", "bad", "blank"}

\* one line of the event stream, with its newline
Render(e) ==
    CASE e = "dx"    -> DataPrefix \o <<"{", "x", "}">> \o <<NL>>
      [] e = "dy"    -> DataPrefix \o <<"{", "y", "}">> \o <<NL>>
      [] e = "d0"    -> DataPrefix \o <<"{", "}">> \o <<NL>>
      [] e = "done"  -> DataPrefix \o DoneSentinel \o <<NL>>
      [] e = "bad"   -> DataPrefix \o <<"{", "x">> \o <<NL>>
      [] e = "blank" -> <<NL>>

StreamOf(es) == Concat([i \in 1..Len(es) |-> Render(es[i])])

AllStreams == {StreamOf(es) : es \in UNION {[1..n -> Events] : n \in 0..MaxEvents}}

FewStreams == {StreamOf(<<"dx", "dy">>)}

\* chunk lengths the network delivers in the specification of the whole view:
\* the two lines of the body together
ChunkCuts == {20}

----------------------------------------------------------------------------
(* The decode loop of sendMessage and regenerateMessage *)

\* body of `if (delta?.content) { ... }`: accumulate, then setMessages
OnDeltaReplace(d, aid, content) ==
    LET msgs2 == MapContent(d.msgs, aid, content)
    IN  [d EXCEPT !.acc = content,
                  !.msgs = msgs2,
                  !.pubs = Append(@, ContentsOf(msgs2, aid)),
                  !.deltas = Append(@, content),
                  !.late = @ \/ d.doneSeen,
                  !.afterBad = @ \/ d.skipped]

OnDelta(d, aid, content) ==
    LET acc2  == d.acc \o content
        msgs2 == MapContent(d.msgs, aid, acc2)
    IN  [d EXCEPT !.acc = acc2,
                  !.msgs = msgs2,
                  !.pubs = Append(@, ContentsOf(msgs2, aid)),
                  !.deltas = Append(@, content),
                  !.late = @ \/ d.doneSeen,
                  !.afterBad = @ \/ d.skipped]

\* body of `for (const line of lines) { ... }`; d.err is an exception that
\* left the loop body
ProcessLineRethrow(d, aid, line) ==
    IF d.err \/ ~startsWith(line, DataPrefix) THEN d
    ELSE LET data == slice(line, 6) IN
         IF data = DoneSentinel THEN [d EXCEPT !.doneSeen = TRUE]
         ELSE LET parsed == JSONparse(data) IN
              IF ~parsed.ok THEN [d EXCEPT !.skipped = TRUE, !.err = TRUE]
              ELSE IF parsed.content = <<>> THEN d
              ELSE OnDelta(d, aid, parsed.content)

ProcessLine(d, aid, line) ==
    IF d.err \/ ~startsWith(line, DataPrefix) THEN d
    ELSE LET data == slice(line, 6) IN
         IF data = DoneSentinel THEN [d EXCEPT !.doneSeen = TRUE]
         ELSE LET parsed == JSONparse(data) IN
              IF ~parsed.ok THEN [d EXCEPT !.skipped = TRUE]
              ELSE IF parsed.content = <<>> THEN d
              ELSE OnDelta(d, aid, parsed.content)

RECURSIVE ProcessLines(_, _, _)
ProcessLines(d, aid, lines) ==
    IF lines = <<>> THEN d
    ELSE ProcessLines(ProcessLine(d, aid, Head(lines)), aid, Tail(lines))

\* one iteration of `while (true)` after reader.read() gave a chunk
ProcessChunk(d, aid, chunk) == ProcessLines(d, aid, split(chunk))

DecodeState(fl, msgs) ==
    [acc |-> fl.acc, msgs |-> msgs, pubs |-> fl.pubs, deltas |-> fl.deltas,
     doneSeen |-> fl.doneSeen, late |-> fl.late, skipped |-> fl.skipped,
     afterBad |-> fl.afterBad, err |-> FALSE]

\* finalMessages
FinalMessagesNoContent(base, aid, acc) == base

FinalMessages(base, aid, acc) == MapContent(base, aid, acc)

\* what the catch block leaves in `messages`
CatchMessagesRestore(op, msgs, saved) == saved

CatchMessages(op, msgs, saved) == IF op = "regen" THEN saved ELSE msgs

\* `messages` once the fetch has settled: the placeholder is appended after
\* the response.ok check
AfterFetchEarlyPlaceholder(ok, op, msgs, base, saved, ph) ==
    IF ok THEN Append(base, ph) ELSE CatchMessages(op, Append(base, ph), saved)

AfterFetch(ok, op, msgs, base, saved, ph) ==
    IF ok THEN Append(base, ph) ELSE CatchMessages(op, msgs, saved)

\* a part of a multimodal message content
TextPart(text) == [type |-> "text", text |-> text, url |-> ""]

ImagePart(imageUrl) == [type |-> "image_url", text |-> <<>>, url |-> imageUrl]

\* messageContent
MessageContent(userMessage, supportsImages) ==
    (IF userMessage.content # <<>> THEN <<TextPart(userMessage.content)>> ELSE <<>>)
    \o (IF Len(userMessage.images) > 0 /\ supportsImages
        THEN [k \in 1..Len(userMessage.images) |-> ImagePart(userMessage.images[k])]
        ELSE <<>>)

\* list.map(msg => ({ role: msg.role, content: msg.content })); an entry of
\* requestBody.messages has its content as text in `content` or as parts in
\* `parts`
Reduced(list) ==
    [k \in 1..Len(list) |->
        [role |-> list[k].role, content |-> list[k].content, parts |-> <<>>]]

\* requestBody.messages
RequestMessagesWholeList(supportsImages, userMessage, list) == Reduced(list)

RequestMessages(supportsImages, userMessage, list) ==
    LET messageContent == MessageContent(userMessage, supportsImages)
    IN  IF supportsImages /\ Len(messageContent) > 0
        THEN <<[role |-> "user", content |-> <<>>, parts |-> messageContent]>>
        ELSE Reduced(list)

IdleFlow ==
    [pc |-> "idle", op |-> "none", base |-> <<>>, saved |-> <<>>, aid |-> 0,
     req |-> <<>>, vision |-> FALSE,
     acc |-> <<>>, body |-> <<>>, pos |-> 0, pubs |-> <<>>, deltas |-> <<>>,
     doneSeen |-> FALSE, late |-> FALSE, skipped |-> FALSE, afterBad |-> FALSE,
     outcome |-> "none"]

\* the call has returned: its locals are gone, what it ended with is kept
Ended(fl, how) ==
    [IdleFlow EXCEPT !.op = fl.op, !.outcome = how]

----------------------------------------------------------------------------
(* ChatInterface: user actions and the steps of the async handlers *)

Texts == {<<>>, <<" ">>, <<"q">>}

\* the literal of sendMessage that stands in for a missing text ("please
\* analyse this picture")
DefaultText == <<"a">>

\* uploadedFiles.map(file => file.url).filter(Boolean)
UploadLists ==
    {<<>>, <<"data:image/png;base64,AA">>,
     <<"data:image/png;base64,AA", "data:image/png;base64,BB">>}

\* the apiKey of the provider configuration: "" when none is stored or the
\* stored one does not decrypt
ApiKeys == {"", "sk"}

\* if (!apiKey)
NoApiKeyIgnored(key) == FALSE

NoApiKey(key) == key = ""

\* what Date.now() may return next: the clock does not go back and need not
\* advance between two readings
Times == now..MaxNow

\* what calls sendMessage: the send button, which is disabled while
\* `loading`, or the Enter key of the text area, which is not
Triggers == {"sendButton", "enterKey"}

Accepts(via) == via = "sendButton" => ~loading

\* the first free slot takes a new call
FreeSlot(F, f) ==
    /\ f \in F
    /\ flow[f].pc = "idle"
    /\ \A g \in F : g < f => flow[g].pc # "idle"

\* the slot a new call would take, and the calls that stand at a step
Free(F) == {f \in F : FreeSlot(F, f)}

At(F, pc) == {f \in F : flow[f].pc = pc}

\* sendMessage up to `await fetch(...)`
SendMessage(F, f, text, files, supportsImages, key, t) ==
    /\ InView("chat")
    /\ ops < MaxOps
    /\ FreeSlot(F, f)
    /\ t \in Times
    /\ SessionLen(messages) < MaxMsgs
    /\ IF (trim(text) = <<>> /\ Len(files) = 0) \/ NoApiKey(key)
       THEN t = now /\ UNCHANGED chatVars
       ELSE LET content     == IF trim(text) # <<>> THEN trim(text) ELSE DefaultText
                userMessage == [Message(t, "user", content) EXCEPT !.images = files]
                newMessages == Append(messages, userMessage)
            IN  /\ messages' = newMessages
                /\ loading' = TRUE
                /\ flow' = [flow EXCEPT ![f] =
                              [IdleFlow EXCEPT
                                 !.pc = "fetch", !.op = "send", !.base = newMessages,
                                 !.vision = supportsImages,
                                 !.req = RequestMessages(supportsImages, userMessage,
                                                         newMessages)]]
                /\ ops' = ops + 1
                /\ now' = t
                /\ UNCHANGED chat_history
    /\ UNCHANGED imgVars

\* a slice that keeps the reply
UpToReply(msgs, messageIndex) == SubSeq(msgs, 1, messageIndex)

\* messages.slice(0, messageIndex), for the 1-based index of the reply
BeforeReply(msgs, messageIndex) == SubSeq(msgs, 1, messageIndex - 1)

\* regenerateMessage up to `await fetch(...)`
RegenerateMessage(F, f, messageId, supportsImages, key) ==
    /\ InView("chat")
    /\ ops < MaxOps
    /\ FreeSlot(F, f)
    /\ LET messageIndex     == findIndex(messages, messageId)
           userMessageIndex == messageIndex - 1
       IN  IF messageIndex = 0
           THEN UNCHANGED chatVars
           ELSE IF userMessageIndex < 1 \/ messages[userMessageIndex].role # "user"
           THEN UNCHANGED chatVars
           ELSE LET userMessage              == messages[userMessageIndex]
                    messagesBeforeRegenerate == BeforeReply(messages, messageIndex)
                IN  /\ messages' = messagesBeforeRegenerate
                    /\ ops' = ops + 1
                    /\ IF NoApiKey(key)
                       THEN UNCHANGED <<chat_history, loading, now, flow>>
                       ELSE /\ loading' = TRUE
                            /\ flow' = [flow EXCEPT ![f] =
                                  [IdleFlow EXCEPT
                                     !.pc = "fetch", !.op = "regen",
                                     !.base = messagesBeforeRegenerate,
                                     !.saved = messages,
                                     !.vision = supportsImages,
                                     !.req = RequestMessages(supportsImages, userMessage,
                                                             messagesBeforeRegenerate)]]
                            /\ UNCHANGED <<chat_history, now>>
    /\ UNCHANGED imgVars

\* the fetch settles: response.ok with a body, or a failure (non-2xx status,
\* rejected fetch) that is thrown to the catch block
FetchSettled(F, f, ok, body, t) ==
    /\ InView("chat")
    /\ f \in F
    /\ flow[f].pc = "fetch"
    /\ ok \/ (body = <<>> /\ t = now)
    /\ t \in Times
    /\ now' = t
    /\ LET fl   == flow[f]
           aidv == IF fl.op = "send" THEN t + 1 ELSE t
           ph   == Message(aidv, "assistant", <<>>)
       IN  /\ messages' = AfterFetch(ok, fl.op, messages, fl.base, fl.saved, ph)
           /\ IF ok
              THEN /\ flow' = [flow EXCEPT ![f] =
                                 [fl EXCEPT !.pc = "read", !.base = Append(fl.base, ph),
                                            !.aid = aidv, !.body = body,
                                            !.req = <<>>, !.vision = FALSE]]
                   /\ UNCHANGED loading
              ELSE /\ flow' = [flow EXCEPT ![f] =
                                 Ended(fl, "httpError")]
                   /\ loading' = FALSE
    /\ UNCHANGED <<chat_history, ops>>
    /\ UNCHANGED imgVars

\* reader.read() resolves with the next n characters of the body
ReadChunk(F, f, n) ==
    /\ InView("chat")
    /\ f \in F
    /\ flow[f].pc = "read"
    /\ n \in 1..(Len(flow[f].body) - flow[f].pos)
    /\ LET fl    == flow[f]
           chunk == SubSeq(fl.body, fl.pos + 1, fl.pos + n)
           d     == ProcessChunk(DecodeState(fl, messages), fl.aid, chunk)
           fl2   == [fl EXCEPT !.pos = fl.pos + n, !.acc = d.acc, !.pubs = d.pubs,
                               !.deltas = d.deltas, !.doneSeen = d.doneSeen,
                               !.late = d.late, !.skipped = d.skipped,
                               !.afterBad = d.afterBad]
       IN  IF d.err
           THEN /\ messages' = CatchMessages(fl.op, d.msgs, fl.saved)
                /\ loading' = FALSE
                /\ flow' = [flow EXCEPT ![f] =
                              Ended(fl2, "thrown")]
           ELSE /\ messages' = d.msgs
                /\ flow' = [flow EXCEPT ![f] = fl2]
                /\ UNCHANGED loading
    /\ UNCHANGED <<chat_history, now, ops>>
    /\ UNCHANGED imgVars

\* reader.read() resolves with done: leave the loop, finalize and save
ReadDone(F, f) ==
    /\ InView("chat")
    /\ f \in F
    /\ flow[f].pc = "read"
    /\ flow[f].pos = Len(flow[f].body)
    /\ LET fl            == flow[f]
           finalMessages == FinalMessages(fl.base, fl.aid, fl.acc)
       IN  /\ messages' = finalMessages
           /\ chat_history' = Stored(finalMessages)
           /\ loading' = FALSE
           /\ flow' = [flow EXCEPT ![f] =
                         Ended(fl, "finalized")]
    /\ UNCHANGED <<now, ops>>
    /\ UNCHANGED imgVars

\* reader.read() rejects: the inner finally releases the reader, the catch
\* block reports and the outer finally clears `loading`
ReadError(F, f) ==
    /\ InView("chat")
    /\ f \in F
    /\ flow[f].pc = "read"
    /\ LET fl == flow[f]
       IN  /\ messages' = CatchMessages(fl.op, messages, fl.saved)
           /\ loading' = FALSE
           /\ flow' = [flow EXCEPT ![f] =
                         Ended(fl, "streamError")]
    /\ UNCHANGED <<chat_history, now, ops>>
    /\ UNCHANGED imgVars

deleteMessage(messageId) ==
    /\ InView("chat")
    /\ ops < MaxOps
    /\ ops' = ops + 1
    /\ LET updatedMessages == FilterOut(messages, messageId)
       IN  /\ messages' = updatedMessages
           /\ chat_history' = Stored(updatedMessages)
    /\ UNCHANGED <<loading, now, flow>>
    /\ UNCHANGED imgVars

clearChat ==
    /\ InView("chat")
    /\ ops < MaxOps
    /\ ops' = ops + 1
    /\ messages' = <<>>
    /\ chat_history' = NoItem
    /\ UNCHANGED <<loading, now, flow>>
    /\ UNCHANGED imgVars

MessageIds == {messages[k].id : k \in 1..Len(messages)}

AssistantIds == {messages[k].id : k \in {j \in 1..Len(messages) : messages[j].role = "assistant"}}

----------------------------------------------------------------------------
(* ImageGeneration: handleGenerate and generateImageWithAPI *)

HistoryCap == 50

PollInterval == 5000

Prompts == {<<>>, <<"p">>}

ModelTypes == {"image-generation", "image-edit"}

\* the two sources of the component: src/unnamed/part_001, and the one
\* that follows the App component in src/src/App.tsx
Builds == {"part_001", "App.tsx"}

\* what FileReader.readAsDataURL gives beforeUpload for the uploaded files
DataUrls == {"data:image/png;base64,AA", "data:image/png;base64,BB"}

\* uploadedFiles.map(file => file.url).filter(Boolean)
ReferenceLists ==
    {<<>>, <<"data:image/png;base64,AA">>,
     <<"data:image/png;base64,AA", "data:image/png;base64,BB">>,
     <<"data:image/png;base64,BB", "data:image/png;base64,AA">>}

TestImageUrl == "https://resources.modelscope.cn/aigc/image_edit.png"

\* a field of a request body: absent, or present with a value
Absent == <<>>

Field(v) == <<v>>

EmptyBody ==
    [model |-> "", prompt |-> <<>>, image |-> Absent, images |-> Absent,
     image_url |-> Absent]

NoRequest == [url |-> "none", body |-> EmptyBody]

NoCall == [type |-> "none", refs |-> <<>>, request |-> NoRequest]

\* requestBody of the image-edit branch
EditBodyFirstReference(prompt, refs) ==
    [EmptyBody EXCEPT !.model = "Qwen/Qwen-Image-Edit", !.prompt = prompt,
                      !.image_url = Field(refs[1])]

EditBody(prompt, refs) ==
    [EmptyBody EXCEPT !.model = "Qwen/Qwen-Image-Edit", !.prompt = prompt,
                      !.image_url = Field(TestImageUrl)]

\* requestBody of the text-to-image branch; the selected model is named by
\* its type
GenBody(type, prompt) ==
    [EmptyBody EXCEPT !.model = type, !.prompt = prompt]

\* requestBody of generateImageWithAPI in App.tsx
AppBody(type, prompt, refs) ==
    LET requestBody == [EmptyBody EXCEPT !.model = type, !.prompt = prompt]
    IN  IF Len(refs) > 0
        THEN IF Len(refs) = 1
             THEN [requestBody EXCEPT !.image = Field(refs[1])]
             ELSE [requestBody EXCEPT !.images = Field(refs)]
        ELSE requestBody

\* the request generateImageWithAPI sends first
RequestOf(build, type, prompt, refs) ==
    IF build = "App.tsx"
    THEN [url |-> "images/generations", body |-> AppBody(type, prompt, refs)]
    ELSE IF type = "image-edit" /\ Len(refs) > 0
    THEN [url |-> "v1/images/generations", body |-> EditBody(prompt, refs)]
    ELSE [url |-> "images/generations", body |-> GenBody(type, prompt)]

\* bodies of GET v1/tasks/{taskId}; ok is resultResponse.ok (a rejected
\* fetch or a body that is not JSON ends the call the same way as a response
\* that is not ok: the exception leaves the loop)
PollResponses ==
    {[ok |-> FALSE, task_status |-> "RUNNING", output_images |-> <<>>, message |-> ""]}
    \cup {[ok |-> TRUE, task_status |-> st, output_images |-> <<>>, message |-> ""] :
            st \in {"PENDING", "RUNNING"}}
    \cup {[ok |-> TRUE, task_status |-> "SUCCEED", output_images |-> im, message |-> ""] :
            im \in {<<>>, <<"https://x/out.png">>, <<"https://x/out.png", "https://x/out2.png">>,
                    <<"https://x/out2.png", "https://x/out.png">>}}
    \cup {[ok |-> TRUE, task_status |-> "FAILED", output_images |-> <<>>, message |-> m] :
            m \in {"", "quota exceeded"}}

\* bodies of POST images/generations: `data` and `images` list the `url`
\* property of their entries, "" for an entry that has none; <<>> is a
\* missing or empty array and url "" a missing property
GenResponses ==
    {[ok |-> FALSE, data |-> <<>>, images |-> <<>>, url |-> ""]}
    \cup {[ok |-> TRUE, data |-> d, images |-> i, url |-> u] :
            d \in {<<>>, <<"">>, <<"https://x/out.png">>},
            i \in {<<>>, <<"">>, <<"https://x/out2.png">>},
            u \in {"", "https://x/out3.png"}}

Return(v)   == [kind |-> "return",   value |-> <<v>>]
Throw(k, m) == [kind |-> "throw",    value |-> <<k, m>>]
Continue    == [kind |-> "continue", value |-> <<>>]

NoResult == [kind |-> "none", value |-> <<>>]

\* the response handling of the text-to-image branch
ExtractUrl(r) ==
    IF ~r.ok THEN Throw("ApiRequestFailed", "")
    ELSE IF Len(r.data) > 0 THEN Return(r.data[1])
    ELSE IF Len(r.images) > 0 THEN Return(r.images[1])
    ELSE IF r.url # "" THEN Return(r.url)
    ELSE Throw("NoImageUrlInResponse", "")

\* the response handling of generateImageWithAPI in App.tsx: data.data[0]
\* of a missing or empty array is a TypeError
ExtractUrlApp(r) ==
    IF ~r.ok THEN Throw("ApiRequestFailed", "")
    ELSE IF Len(r.data) > 0 THEN Return(r.data[1])
    ELSE Throw("TypeError", "")

\* one iteration of the polling loop after its status query has settled
PollStepLastImage(r) ==
    IF ~r.ok THEN Throw("TaskStatusQueryFailed", "")
    ELSE IF r.task_status = "SUCCEED"
         THEN IF Len(r.output_images) > 0
              THEN Return(r.output_images[Len(r.output_images)])
              ELSE Throw("TaskSucceededWithoutImage", "")
    ELSE IF r.task_status = "FAILED"
         THEN Throw("ImageGenerationFailed", IF r.message # "" THEN r.message ELSE "UnknownError")
    ELSE Continue

PollStepFailedIgnored(r) ==
    IF ~r.ok THEN Throw("TaskStatusQueryFailed", "")
    ELSE IF r.task_status = "SUCCEED"
         THEN IF Len(r.output_images) > 0
              THEN Return(r.output_images[1])
              ELSE Throw("TaskSucceededWithoutImage", "")
    ELSE Continue

PollStep(r) ==
    IF ~r.ok THEN Throw("TaskStatusQueryFailed", "")
    ELSE IF r.task_status = "SUCCEED"
         THEN IF Len(r.output_images) > 0
              THEN Return(r.output_images[1])
              ELSE Throw("TaskSucceededWithoutImage", "")
    ELSE IF r.task_status = "FAILED"
         THEN Throw("ImageGenerationFailed", IF r.message # "" THEN r.message ELSE "UnknownError")
    ELSE Continue

NoPoll == [queries |-> 0, waits |-> 0, elapsed |-> 0, log |-> <<>>, exit |-> "none"]

\* await new Promise(resolve => setTimeout(resolve, 5000))
WaitSkipped(p) == [p EXCEPT !.waits = @ + 1]

Wait(p) == [p EXCEPT !.waits = @ + 1, !.elapsed = @ + PollInterval]

\* [historyItem, ...existingHistory].slice(0, 50)
PrependUncapped(item, existing) == <<item>> \o existing

Prepend(item, existing) ==
    LET all == <<item>> \o existing
    IN  SubSeq(all, 1, IF Len(all) < HistoryCap THEN Len(all) ELSE HistoryCap)

\* saveImageToLocal: a blob URL of the bytes fetched from imageUrl, or
\* imageUrl itself when the fetch or the blob fails
saveImageToLocalNoFallback(localOk, imageUrl) ==
    [blob |-> localOk, url |-> IF localOk THEN imageUrl ELSE ""]

saveImageToLocal(localOk, imageUrl) ==
    [blob |-> localOk, url |-> imageUrl]

\* the catch and finally blocks of handleGenerate
GenerateFailedStillLoading(t) ==
    /\ imgPc' = "idle"
    /\ imgLoading' = imgLoading
    /\ imgResult' = t
    /\ imgCall' = NoCall
    /\ UNCHANGED <<history, image_generation_history>>

GenerateFailed(t) ==
    /\ imgPc' = "idle"
    /\ imgLoading' = FALSE
    /\ imgResult' = t
    /\ imgCall' = NoCall
    /\ UNCHANGED <<history, image_generation_history>>

\* handleGenerate up to the first await of generateImageWithAPI
handleGenerate(prompt, hasModel, type, refs, key) ==
    /\ InView("image")
    /\ imgPc = "idle"
    /\ ~imgLoading
    /\ ops < MaxOps
    /\ IF trim(prompt) = <<>> \/ ~hasModel
       THEN UNCHANGED <<imgVars, ops>>
       ELSE /\ ops' = ops + 1
            /\ IF NoApiKey(key)
               THEN /\ GenerateFailed(Throw("ApiKeyMissing", ""))
                    /\ UNCHANGED poll
               ELSE LET request == RequestOf(imgBuild, type, prompt, refs)
                    IN  /\ imgLoading' = TRUE
                        /\ imgResult' = NoResult
                        /\ poll' = NoPoll
                        /\ imgCall' = [type |-> type, refs |-> refs, request |-> request]
                        /\ imgPc' = IF request.url = "v1/images/generations"
                                    THEN "editFetch" ELSE "genFetch"
                        /\ UNCHANGED <<history, image_generation_history>>
    /\ UNCHANGED <<messages, chat_history, loading, now, flow>>

\* POST images/generations settles
GenResponse(r) ==
    /\ InView("image")
    /\ imgPc = "genFetch"
    /\ LET t == IF imgBuild = "App.tsx" THEN ExtractUrlApp(r) ELSE ExtractUrl(r)
       IN  IF t.kind = "return"
           THEN /\ imgPc' = "saveLocal"
                /\ imgResult' = t
                /\ UNCHANGED <<imgLoading, history, image_generation_history, imgCall>>
           ELSE GenerateFailed(t)
    /\ UNCHANGED poll
    /\ UNCHANGED chatVars

\* POST v1/images/generations (async mode) settles
EditResponse(ok, hasTaskId) ==
    /\ InView("image")
    /\ imgPc = "editFetch"
    /\ IF ~ok THEN GenerateFailed(Throw("ApiRequestFailed", ""))
       ELSE IF ~hasTaskId THEN GenerateFailed(Throw("NoTaskId", ""))
       ELSE /\ imgPc' = "pollWait"
            /\ UNCHANGED <<imgLoading, history, image_generation_history, imgResult,
                           imgCall>>
    /\ UNCHANGED poll
    /\ UNCHANGED chatVars

\* the 5 second timer of the polling loop fires and the status query is sent
PollWait ==
    /\ InView("image")
    /\ imgPc = "pollWait"
    /\ poll.queries < MaxPolls
    /\ poll' = Wait(poll)
    /\ imgPc' = "pollFetch"
    /\ UNCHANGED <<imgLoading, history, image_generation_history, imgResult, imgCall>>
    /\ UNCHANGED chatVars

\* GET v1/tasks/{taskId} settles
PollResponse(r) ==
    /\ InView("image")
    /\ imgPc = "pollFetch"
    /\ LET t == PollStep(r)
           p == [poll EXCEPT !.queries = @ + 1, !.log = Append(@, r)]
       IN  CASE t.kind = "continue" ->
                  /\ poll' = p
                  /\ imgPc' = "pollWait"
                  /\ UNCHANGED <<imgLoading, history, image_generation_history, imgResult,
                                 imgCall>>
             [] t.kind = "return" ->
                  /\ poll' = [p EXCEPT !.exit = "return"]
                  /\ imgPc' = "saveLocal"
                  /\ imgResult' = t
                  /\ UNCHANGED <<imgLoading, history, image_generation_history, imgCall>>
             [] t.kind = "throw" ->
                  /\ poll' = [p EXCEPT !.exit = "throw"]
                  /\ GenerateFailed(t)
    /\ UNCHANGED chatVars

\* saveImageToLocal settles, then the record is put in front of the history
SaveLocal(localOk, t) ==
    /\ InView("image")
    /\ imgPc = "saveLocal"
    /\ t \in Times
    /\ now' = t
    /\ LET imageUrl    == imgResult.value[1]
           historyItem == [id |-> t, image |-> saveImageToLocal(localOk, imageUrl)]
           newHistory  == Prepend(historyItem, image_generation_history.items)
       IN  /\ image_generation_history' = Stored(newHistory)
           /\ history' = newHistory
    /\ imgPc' = "idle"
    /\ imgLoading' = FALSE
    /\ imgCall' = NoCall
    /\ UNCHANGED <<poll, imgResult>>
    /\ UNCHANGED <<messages, chat_history, loading, flow, ops>>

\* history.filter(item => item.id !== id), shown and stored
deleteHistoryItem(id) ==
    /\ InView("image")
    /\ ops < MaxOps
    /\ ops' = ops + 1
    /\ LET updatedHistory == SelectSeq(history, LAMBDA item : item.id # id)
       IN  /\ history' = updatedHistory
           /\ image_generation_history' = Stored(updatedHistory)
    /\ UNCHANGED <<imgPc, imgLoading, poll, imgResult, imgCall>>
    /\ UNCHANGED <<messages, chat_history, loading, now, flow>>

clearHistory ==
    /\ InView("image")
    /\ ops < MaxOps
    /\ ops' = ops + 1
    /\ history' = <<>>
    /\ image_generation_history' = NoItem
    /\ UNCHANGED <<imgPc, imgLoading, poll, imgResult, imgCall>>
    /\ UNCHANGED <<messages, chat_history, loading, now, flow>>

\* the handleGenerate call stands at a step
ImgAt(pc) == currentMode = "image" /\ imgPc = pc

\* the generate button takes a click: it shows `loading` while a call runs,
\* and the user has actions left
GenerateEnabled == ImgAt("idle") /\ ~imgLoading /\ ops < MaxOps

\* the records the user can pick in the history drawer of the model: the
\* newest and the oldest
PickedIds ==
    IF history = <<>> THEN {} ELSE {history[1].id, history[Len(history)].id}

----------------------------------------------------------------------------
(* config/models.ts, utils/apiConfig.ts and the ApiConfig page *)

Providers == {"modelscope", "siliconflow"}

\* the api keys a catalog entry, the environment or the user may give
CatalogKeys == {"", "sk-catalog"}

EnvKeys == {"", "sk-env"}

UserKeys == {"", "sk-local"}

\* the key a caller of updateProviderApiKey sets
SetKeys == {"sk-set"}

\* what the site serves as /providers.json and what the build has in
\* import.meta.env.MODELSCOPE_API_KEY
Deployments ==
    {[catalog |-> c, env |-> e] : c \in [Providers -> CatalogKeys], e \in EnvKeys}

\* who calls initializeConfig: the two module-level calls and the effects of
\* the components
ModuleCallers == {"models.ts:114", "models.ts:261"}

ComponentCallers == {"ChatInterface", "ApiConfig"}

Callers == ModuleCallers \cup ComponentCallers

\* encryptApiKey / decryptApiKey: a ciphertext is the salt marker and the
\* bytes; what is not a ciphertext decrypts to ''
encryptApiKey(apiKey) == <<"U2FsdGVkX1", apiKey>>

decryptApiKey(encryptedKey) ==
    IF Len(encryptedKey) = 2 /\ encryptedKey[1] = "U2FsdGVkX1"
    THEN encryptedKey[2]
    ELSE ""

\* providersConfig: null, or the default provider and the apiKey of each
\* provider of the list
NullConfig == [loaded |-> FALSE, providers |-> <<>>]

\* the object initializeConfig builds from the response: the environment key
\* replaces the one of modelscope, a missing key becomes ''
BuiltConfig(d) ==
    [loaded |-> TRUE,
     providers |-> [p \in Providers |->
                      IF p = "modelscope" /\ d.env # "" THEN d.env ELSE d.catalog[p]]]

\* the object of the catch block: { defaultProvider: 'modelscope', providers: [] }
FallbackConfig == [loaded |-> TRUE, providers |-> <<>>]

\* getProvidersConfigSync().providers as a function of the provider id
ProvidersOf(config) == config.providers

\* getProviderById(providerId) found
HasProvider(config, p) == p \in DOMAIN ProvidersOf(config)

\* getProviderConfig(providerId)?.apiKey, '' when there is no provider (this
\* is what getProviderConfigForChat and generateImageWithAPI test)
getProviderConfig(p) ==
    IF HasProvider(providersConfig, p) THEN ProvidersOf(providersConfig)[p] ELSE ""

NoCfgLog == [fetches |-> 0, assigns |-> 0, set |-> [p \in Providers |-> <<>>]]

\* the module state and the settings page share nothing with the views
cfgUnchangedBy == <<chatVars, imgVars, appVars, upVars, pageVars>>

\* initializeConfig up to `await fetch('/providers.json')`, for the callers cs
\* that call it in one synchronous run
Calls(cs) ==
    /\ \A c \in cs : initPc[c] = "none"
    /\ IF ~configInitialized
       THEN /\ initPc' = [c \in Callers |-> IF c \in cs THEN "fetch" ELSE initPc[c]]
            /\ cfgLog' = [cfgLog EXCEPT !.fetches = @ + Cardinality(cs)]
       ELSE /\ initPc' = [c \in Callers |-> IF c \in cs THEN "done" ELSE initPc[c]]
            /\ UNCHANGED cfgLog
    /\ UNCHANGED <<providersConfig, configInitialized, api_config, configs, deploy>>
    /\ UNCHANGED cfgUnchangedBy

\* the module is evaluated: lines 114 and 261 call initializeConfig one after
\* the other before any response can arrive
ModuleLoad == Calls(ModuleCallers)

\* the effect of a component calls initializeConfig
ComponentInit(c) ==
    /\ c \in ComponentCallers
    /\ \A m \in ModuleCallers : initPc[m] # "none"
    /\ Calls({c})

\* the fetch of a call settles: the try block assigns the built object, the
\* catch block the fallback; then configInitialized = true
InitSettled(c, ok) ==
    /\ initPc[c] = "fetch"
    /\ providersConfig' = IF ok THEN BuiltConfig(deploy) ELSE FallbackConfig
    /\ configInitialized' = TRUE
    /\ initPc' = [initPc EXCEPT ![c] = "done"]
    /\ cfgLog' = [cfgLog EXCEPT !.assigns = @ + 1]
    /\ UNCHANGED <<api_config, configs, deploy>>
    /\ UNCHANGED cfgUnchangedBy

\* updateProviderApiKey(providerId, apiKey) of models.ts
updateProviderApiKey(p, k) ==
    /\ providersConfig.loaded
    /\ cfgLog.set[p] = <<>>
    /\ IF HasProvider(providersConfig, p)
       THEN /\ providersConfig' = [providersConfig EXCEPT !.providers[p] = k]
            /\ cfgLog' = [cfgLog EXCEPT !.set[p] = <<k>>]
       ELSE UNCHANGED <<providersConfig, cfgLog>>
    /\ UNCHANGED <<configInitialized, initPc, api_config, configs, deploy>>
    /\ UNCHANGED cfgUnchangedBy

\* updateProviderConfig(providerId, apiKey) of utils/apiConfig
updateProviderConfig(p, k) ==
    [api_config EXCEPT ![p] = <<encryptApiKey(k)>>]

\* loadConfigs of the ApiConfig page, run by the effect of its mount, after
\* its `await initializeConfig()`
loadConfigs ==
    /\ initPc["ApiConfig"] = "done"
    /\ ~configs.shown
    /\ configs' = [shown |-> TRUE,
                   keys |-> [p \in DOMAIN ProvidersOf(providersConfig) |->
                               IF api_config[p] # <<>> /\ api_config[p][1] # <<>>
                               THEN decryptApiKey(api_config[p][1])
                               ELSE ProvidersOf(providersConfig)[p]]]
    /\ UNCHANGED <<providersConfig, configInitialized, initPc, api_config, cfgLog, deploy>>
    /\ UNCHANGED cfgUnchangedBy

\* handleApiKeyChange(providerId, value)
handleApiKeyChange(p, value) ==
    /\ configs.shown
    /\ p \in DOMAIN configs.keys
    /\ configs.keys[p] # value
    /\ configs' = [configs EXCEPT !.keys[p] = value]
    /\ UNCHANGED <<providersConfig, configInitialized, initPc, api_config, cfgLog, deploy>>
    /\ UNCHANGED cfgUnchangedBy

\* saveConfig(providerId)
saveConfig(p) ==
    /\ configs.shown
    /\ p \in DOMAIN configs.keys
    /\ api_config' = updateProviderConfig(p, configs.keys[p])
    /\ UNCHANGED <<providersConfig, configInitialized, initPc, configs, cfgLog, deploy>>
    /\ UNCHANGED cfgUnchangedBy

----------------------------------------------------------------------------
(* uploadProps of ChatInterface and ImageGeneration *)

UploadCap == 3

\* the files the user selects, by name
Files == 1..MaxFiles

\* the data URL FileReader.readAsDataURL gives for a file
DataUrlOf(file) == <<"data:image/png;base64,", file>>

\* beforeUpload(file): the length test reads the uploadedFiles of the render
\* the Upload component was given; an accepted file gets a FileReader
beforeUpload(file, isImage) ==
    /\ file \notin selected
    /\ selected' = selected \cup {file}
    /\ IF ~isImage \/ Len(uploadedFiles) >= UploadCap
       THEN UNCHANGED readers
       ELSE readers' = readers \cup {file}
    /\ UNCHANGED uploadedFiles
    /\ UNCHANGED <<chatVars, imgVars, appVars, cfgVars, pageVars>>

\* reader.onload: setUploadedFiles(prev => [...prev, newFile])
onload(file) ==
    /\ file \in readers
    /\ readers' = readers \ {file}
    /\ uploadedFiles' = Append(uploadedFiles, [uid |-> file, url |-> DataUrlOf(file)])
    /\ UNCHANGED selected
    /\ UNCHANGED <<chatVars, imgVars, appVars, cfgVars, pageVars>>

\* onRemove(file): setUploadedFiles(prev => prev.filter(f => f.uid !== file.uid))
onRemove(uid) ==
    /\ uploadedFiles' = SelectSeq(uploadedFiles, LAMBDA f : f.uid # uid)
    /\ UNCHANGED <<readers, selected>>
    /\ UNCHANGED <<chatVars, imgVars, appVars, cfgVars, pageVars>>

\* setUploadedFiles([]) of sendMessage, clearChat and the image view
resetUploads ==
    /\ uploadedFiles # <<>>
    /\ uploadedFiles' = <<>>
    /\ UNCHANGED <<readers, selected>>
    /\ UNCHANGED <<chatVars, imgVars, appVars, cfgVars, pageVars>>

----------------------------------------------------------------------------
(* GenerationHistory: the page of the three stored logs *)

ChatTypes == {"text", "vision", "image"}

\* the component before it is mounted
NoPage ==
    [chatType |-> "none", textHistory |-> <<>>, visionHistory |-> <<>>,
     imageHistory |-> <<>>]

\* JSON.parse(localStorage.getItem(key) || '[]')
ParsedLog(item) == IF item.present THEN item.items ELSE <<>>

pageUnchangedBy == <<chatVars, imgPc, imgLoading, history, poll, imgResult, imgCall,
                     appVars, cfgVars, upVars>>

PageShows(chatType) == generationHistory.chatType = chatType

\* the effect on [chatType]: loadHistory reads the log of the chat type
loadHistory(chatType) ==
    /\ ~PageShows(chatType)
    /\ generationHistory' =
          CASE chatType = "text" ->
                 [generationHistory EXCEPT !.chatType = chatType,
                                           !.textHistory = ParsedLog(text_chat_history)]
            [] chatType = "vision" ->
                 [generationHistory EXCEPT !.chatType = chatType,
                                           !.visionHistory = ParsedLog(vision_chat_history)]
            [] chatType = "image" ->
                 [generationHistory EXCEPT !.chatType = chatType,
                                           !.imageHistory = ParsedLog(image_generation_history)]
    /\ UNCHANGED <<text_chat_history, vision_chat_history, image_generation_history>>
    /\ UNCHANGED pageUnchangedBy

\* clearHistory of GenerationHistory: the log of the chat type shown
clearGenerationHistory ==
    /\ generationHistory.chatType \in ChatTypes
    /\ CASE PageShows("text") ->
              /\ text_chat_history' = NoItem
              /\ generationHistory' = [generationHistory EXCEPT !.textHistory = <<>>]
              /\ UNCHANGED <<vision_chat_history, image_generation_history>>
         [] PageShows("vision") ->
              /\ vision_chat_history' = NoItem
              /\ generationHistory' = [generationHistory EXCEPT !.visionHistory = <<>>]
              /\ UNCHANGED <<text_chat_history, image_generation_history>>
         [] PageShows("image") ->
              /\ image_generation_history' = NoItem
              /\ generationHistory' = [generationHistory EXCEPT !.imageHistory = <<>>]
              /\ UNCHANGED <<text_chat_history, vision_chat_history>>
    /\ UNCHANGED pageUnchangedBy

deleteTextMessage(id) ==
    /\ PageShows("text")
    /\ LET updatedHistory == FilterOut(generationHistory.textHistory, id)
       IN  /\ generationHistory' = [generationHistory EXCEPT !.textHistory = updatedHistory]
           /\ text_chat_history' = Stored(updatedHistory)
    /\ UNCHANGED <<vision_chat_history, image_generation_history>>
    /\ UNCHANGED pageUnchangedBy

deleteVisionMessage(id) ==
    /\ PageShows("vision")
    /\ LET updatedHistory == FilterOut(generationHistory.visionHistory, id)
       IN  /\ generationHistory' = [generationHistory EXCEPT !.visionHistory = updatedHistory]
           /\ vision_chat_history' = Stored(updatedHistory)
    /\ UNCHANGED <<text_chat_history, image_generation_history>>
    /\ UNCHANGED pageUnchangedBy

deleteImageItem(id) ==
    /\ PageShows("image")
    /\ LET updatedHistory == FilterOut(generationHistory.imageHistory, id)
       IN  /\ generationHistory' = [generationHistory EXCEPT !.imageHistory = updatedHistory]
           /\ image_generation_history' = Stored(updatedHistory)
    /\ UNCHANGED <<text_chat_history, vision_chat_history>>
    /\ UNCHANGED pageUnchangedBy

\* the ids of the entries a list shows
IdsOf(list) == {list[k].id : k \in 1..Len(list)}

----------------------------------------------------------------------------
(* Initial state *)

AppModes == {"chat", "image"}

ChatInit ==
    /\ messages = <<>>
    /\ chat_history = NoItem
    /\ loading = FALSE
    /\ now = 0
    /\ flow = [f \in Flows |-> IdleFlow]
    /\ ops = 0

ImgInit ==
    /\ imgPc = "idle"
    /\ imgLoading = FALSE
    /\ history = <<>>
    /\ image_generation_history = NoItem
    /\ poll = NoPoll
    /\ imgResult = NoResult
    /\ imgCall = NoCall

\* the module is not evaluated yet, nothing is saved under 'api_config'
CfgInit ==
    /\ providersConfig = NullConfig
    /\ configInitialized = FALSE
    /\ initPc = [c \in Callers |-> "none"]
    /\ api_config = [p \in Providers |-> <<>>]
    /\ configs = [shown |-> FALSE, keys |-> <<>>]
    /\ cfgLog = NoCfgLog

\* a site whose catalog has a key for modelscope only
DefaultDeploy ==
    [catalog |-> [p \in Providers |-> IF p = "modelscope" THEN "sk-catalog" ELSE ""],
     env |-> ""]

UpInit ==
    /\ uploadedFiles = <<>>
    /\ readers = {}
    /\ selected = {}

\* the history page is not mounted and its two chat logs were never written
PageInit ==
    /\ generationHistory = NoPage
    /\ text_chat_history = NoItem
    /\ vision_chat_history = NoItem

\* a first visit with nothing stored, in the view the user has opened
Init ==
    /\ ChatInit
    /\ ImgInit
    /\ CfgInit /\ deploy = DefaultDeploy
    /\ UpInit
    /\ PageInit
    /\ imgBuild = "part_001"
    /\ currentMode \in AppModes

\* what earlier visits may have left under 'chat_history': nothing, or
\* HistoryCap messages of alternating roles
RestoredChats ==
    {[k \in 1..n |-> Message(k - n - 1, IF k % 2 = 1 THEN "user" ELSE "assistant", <<"x">>)] :
        n \in {0, HistoryCap}}

\* what earlier visits may have left under 'image_generation_history',
\* newest first: nothing, one record short of HistoryCap, or HistoryCap records
RestoredHistories ==
    {[k \in 1..n |-> [id |-> 0 - k, image |-> [blob |-> TRUE, url |-> "https://x/old.png"]]] :
        n \in {0, HistoryCap - 1, HistoryCap}}

\* the chat view mounted on a stored log: the effect of line 47 loads it
InitSession ==
    /\ messages \in RestoredChats
    /\ chat_history = IF messages = <<>> THEN NoItem ELSE Stored(messages)
    /\ loading = FALSE
    /\ now = 0
    /\ flow = [f \in Flows |-> IdleFlow]
    /\ ops = 0
    /\ ImgInit
    /\ CfgInit /\ deploy = DefaultDeploy
    /\ UpInit
    /\ PageInit
    /\ imgBuild = "part_001"
    /\ currentMode = "chat"

\* the image view of either build mounted on a stored log: loadHistory
InitImage ==
    /\ ChatInit
    /\ imgPc = "idle"
    /\ imgLoading = FALSE
    /\ history \in RestoredHistories
    /\ image_generation_history = IF history = <<>> THEN NoItem ELSE Stored(history)
    /\ poll = NoPoll
    /\ imgResult = NoResult
    /\ imgCall = NoCall
    /\ imgBuild \in Builds
    /\ currentMode = "image"
    /\ CfgInit /\ deploy = DefaultDeploy
    /\ UpInit
    /\ PageInit

----------------------------------------------------------------------------
(* Specifications *)

\* the image view
NextImage ==
    \/ /\ GenerateEnabled
       /\ \E prompt \in Prompts, hasModel \in BOOLEAN, type \in ModelTypes,
             refs \in ReferenceLists, key \in ApiKeys :
               handleGenerate(prompt, hasModel, type, refs, key)
    \/ ImgAt("genFetch") /\ \E r \in GenResponses : GenResponse(r)
    \/ ImgAt("editFetch") /\ \E ok \in BOOLEAN, hasTaskId \in BOOLEAN : EditResponse(ok, hasTaskId)
    \/ PollWait
    \/ ImgAt("pollFetch") /\ \E r \in PollResponses : PollResponse(r)
    \/ ImgAt("saveLocal") /\ \E localOk \in BOOLEAN, t \in Times : SaveLocal(localOk, t)
    \/ \E id \in PickedIds : deleteHistoryItem(id)
    \/ clearHistory

SpecImage == InitImage /\ [][NextImage]_vars

\* inputs of the image view in the specification of the App: no reference
\* or one, a response of each kind, the local copy made
FewReferences == {<<>>, <<"data:image/png;base64,AA">>}

FewGenResponses ==
    {r \in GenResponses : r.images = <<>> /\ r.data # <<"">>}

FewPollResponses ==
    {r \in PollResponses :
        /\ r.task_status # "PENDING"
        /\ Len(r.output_images) = IF r.ok /\ r.task_status = "SUCCEED" THEN 1 ELSE 0
        /\ r.message = ""}

\* the App on a first visit: the chat view with a text-only model and
\* overlapping calls on a few response bodies, or the image view on a few
\* responses
Next ==
    \/ /\ \E via \in Triggers : Accepts(via)
       /\ \E f \in Free(Flows), text \in Texts, key \in ApiKeys, t \in Times :
            SendMessage(Flows, f, text, <<>>, FALSE, key, t)
    \/ \E f \in Free(Flows), id \in AssistantIds, key \in ApiKeys :
            RegenerateMessage(Flows, f, id, FALSE, key)
    \/ \E f \in At(Flows, "fetch"), ok \in BOOLEAN, body \in FewStreams \cup {<<>>},
          t \in Times :
            FetchSettled(Flows, f, ok, body, t)
    \/ \E f \in At(Flows, "read"), n \in ChunkCuts : ReadChunk(Flows, f, n)
    \/ \E f \in At(Flows, "read") : ReadDone(Flows, f)
    \/ \E f \in At(Flows, "read") : ReadError(Flows, f)
    \/ \E id \in MessageIds : deleteMessage(id)
    \/ clearChat
    \/ /\ GenerateEnabled
       /\ \E prompt \in Prompts, hasModel \in BOOLEAN, type \in ModelTypes,
             refs \in FewReferences, key \in ApiKeys :
               handleGenerate(prompt, hasModel, type, refs, key)
    \/ ImgAt("genFetch") /\ \E r \in FewGenResponses : GenResponse(r)
    \/ ImgAt("editFetch") /\ \E ok \in BOOLEAN, hasTaskId \in BOOLEAN : EditResponse(ok, hasTaskId)
    \/ PollWait
    \/ ImgAt("pollFetch") /\ \E r \in FewPollResponses : PollResponse(r)
    \/ \E localOk \in BOOLEAN, t \in Times : SaveLocal(localOk, t)
    \/ \E id \in PickedIds : deleteHistoryItem(id)
    \/ clearHistory

Spec == Init /\ [][Next]_vars

\* the messages the user acts on in a long list: the last three
RecentIds ==
    {messages[k].id : k \in {j \in 1..Len(messages) : j > Len(messages) - 3}}

\* the chat view on a stored log, one call at a time and within one reading
\* of the clock, with text-only and vision models and attachments
NextSession ==
    \/ \E via \in Triggers, text \in Texts, files \in UploadLists,
          supportsImages \in BOOLEAN, key \in ApiKeys :
            Accepts(via) /\ SendMessage({1}, 1, text, files, supportsImages, key, now)
    \/ \E id \in RecentIds \cap AssistantIds, supportsImages \in BOOLEAN, key \in ApiKeys :
            RegenerateMessage({1}, 1, id, supportsImages, key)
    \/ \E f \in At({1}, "fetch"), ok \in BOOLEAN, body \in FewStreams \cup {<<>>} :
            FetchSettled({1}, f, ok, body, now)
    \/ \E n \in ChunkCuts : ReadChunk({1}, 1, n)
    \/ ReadDone({1}, 1)
    \/ ReadError({1}, 1)
    \/ \E id \in RecentIds : deleteMessage(id)
    \/ clearChat

SpecSession == InitSession /\ [][NextSession]_vars

\* the readings of the clock after the latest one
Later == {t \in Times : t > now}

\* the chat view on a stored log, one call at a time, on a clock that has
\* moved on when a response arrives: the round trip of a request takes a
\* millisecond or more
NextTimed ==
    \/ /\ \E via \in Triggers : Accepts(via)
       /\ \E text \in Texts, key \in ApiKeys, t \in Times :
            SendMessage({1}, 1, text, <<>>, FALSE, key, t)
    \/ \E id \in RecentIds \cap AssistantIds, supportsImages \in BOOLEAN, key \in ApiKeys :
            RegenerateMessage({1}, 1, id, supportsImages, key)
    \/ \E f \in At({1}, "fetch"), body \in FewStreams \cup {<<>>}, t \in Later :
            FetchSettled({1}, f, TRUE, body, t)
    \/ \E f \in At({1}, "fetch") : FetchSettled({1}, f, FALSE, <<>>, now)
    \/ \E n \in ChunkCuts : ReadChunk({1}, 1, n)
    \/ ReadDone({1}, 1)
    \/ ReadError({1}, 1)
    \/ \E id \in RecentIds : deleteMessage(id)
    \/ clearChat

SpecTimed == InitSession /\ [][NextTimed]_vars

\* one call on an empty chat, on every response body of up to MaxEvents events and
\* every way of cutting it into chunks
NextDecoder ==
    \/ \E text \in Texts, key \in ApiKeys : ops = 0 /\ SendMessage({1}, 1, text, <<>>, FALSE, key, now)
    \/ \E f \in At({1}, "fetch"), ok \in BOOLEAN, body \in AllStreams :
            FetchSettled({1}, f, ok, body, now)
    \/ \E f \in At({1}, "read"), n \in 1..(13 * MaxEvents) : ReadChunk({1}, f, n)
    \/ ReadDone({1}, 1)
    \/ ReadError({1}, 1)

SpecDecoder == Init /\ [][NextDecoder]_vars

\* what earlier visits may have left under 'api_config': for each provider
\* nothing or an encrypted key
StoredConfigs ==
    [Providers -> {<<>>, <<encryptApiKey("sk-local")>>}]

\* the configuration module and the ApiConfig page on every deployment
InitConfig ==
    /\ ChatInit
    /\ ImgInit
    /\ providersConfig = NullConfig
    /\ configInitialized = FALSE
    /\ initPc = [c \in Callers |-> "none"]
    /\ api_config \in StoredConfigs
    /\ configs = [shown |-> FALSE, keys |-> <<>>]
    /\ cfgLog = NoCfgLog
    /\ deploy \in Deployments
    /\ UpInit
    /\ PageInit
    /\ imgBuild = "part_001"
    /\ currentMode = "chat"

NextConfig ==
    \/ ModuleLoad
    \/ \E c \in ComponentCallers : ComponentInit(c)
    \/ \E c \in Callers, ok \in BOOLEAN : InitSettled(c, ok)
    \/ \E p \in Providers, k \in SetKeys : updateProviderApiKey(p, k)
    \/ loadConfigs
    \/ \E p \in Providers, value \in UserKeys : handleApiKeyChange(p, value)
    \/ \E p \in Providers : saveConfig(p)

SpecConfig == InitConfig /\ [][NextConfig]_vars

\* what earlier visits may have left under 'text_chat_history' and
\* 'vision_chat_history': nothing, or a short log in which two messages got
\* the same id
StoredChatLogs ==
    {NoItem,
     Stored(<<Message(0 - 2, "assistant", <<"y">>), Message(0 - 2, "user", <<"x">>),
              Message(0 - 1, "assistant", <<"y">>)>>)}

\* what earlier visits may have left under 'image_generation_history'
StoredImageLogs ==
    {NoItem,
     Stored([k \in 1..3 |->
               [id |-> 0 - k, image |-> [blob |-> TRUE, url |-> "https://x/old.png"]]])}

\* remove and clear on the stored logs: the views of the App on their logs,
\* then the history page on the three logs it shows
InitLogs ==
    /\ chat_history \in StoredChatLogs
    /\ messages = ParsedLog(chat_history)
    /\ loading = FALSE
    /\ now = 0
    /\ flow = [f \in Flows |-> IdleFlow]
    /\ ops = 0
    /\ imgPc = "idle"
    /\ imgLoading = FALSE
    /\ image_generation_history \in StoredImageLogs
    /\ history = ParsedLog(image_generation_history)
    /\ poll = NoPoll
    /\ imgResult = NoResult
    /\ imgCall = NoCall
    /\ imgBuild = "part_001"
    /\ currentMode \in AppModes
    /\ providersConfig = NullConfig
    /\ configInitialized = FALSE
    /\ initPc = [c \in Callers |-> "none"]
    /\ api_config = [p \in Providers |-> <<encryptApiKey("sk-local")>>]
    /\ configs = [shown |-> FALSE, keys |-> <<>>]
    /\ cfgLog = NoCfgLog
    /\ deploy = DefaultDeploy
    /\ UpInit
    /\ generationHistory = NoPage
    /\ text_chat_history \in StoredChatLogs
    /\ vision_chat_history \in StoredChatLogs

PageClosed == PageShows("none")

NextLogs ==
    \/ PageClosed /\ \E id \in IdsOf(messages) : deleteMessage(id)
    \/ PageClosed /\ clearChat
    \/ PageClosed /\ \E id \in IdsOf(history) : deleteHistoryItem(id)
    \/ PageClosed /\ clearHistory
    \/ \E chatType \in ChatTypes : loadHistory(chatType)
    \/ clearGenerationHistory
    \/ \E id \in IdsOf(generationHistory.textHistory) : deleteTextMessage(id)
    \/ \E id \in IdsOf(generationHistory.visionHistory) : deleteVisionMessage(id)
    \/ \E id \in IdsOf(generationHistory.imageHistory) : deleteImageItem(id)

SpecLogs == InitLogs /\ [][NextLogs]_vars

\* the upload control of either view
InitUpload ==
    /\ ChatInit
    /\ ImgInit
    /\ CfgInit /\ deploy = DefaultDeploy
    /\ UpInit
    /\ PageInit
    /\ imgBuild = "part_001"
    /\ currentMode \in AppModes

NextUpload ==
    \/ \E file \in Files, isImage \in BOOLEAN : beforeUpload(file, isImage)
    \/ \E file \in Files : onload(file)
    \/ \E k \in 1..Len(uploadedFiles) : onRemove(uploadedFiles[k].uid)
    \/ resetUploads

SpecUpload == InitUpload /\ [][NextUpload]_vars

----------------------------------------------------------------------------
(* Properties of the decode loop (SpecDecoder) *)

Range(q) == {q[k] : k \in 1..Len(q)}

Last(q) == q[Len(q)]

\* the text the loop accumulates when the whole body arrives as one chunk
WholeDecode(body) == ProcessChunk(DecodeState(IdleFlow, <<>>), 0, body).acc

\* C1: when the whole body has been delivered, in whatever chunks, the
\* accumulated text equals the text accumulated from the body as one chunk
\* (a segment cut by a chunk boundary is joined with the next chunk).
C1_ChunkingIndependent ==
    \A f \in Flows :
        (flow[f].pc = "read" /\ flow[f].pos = Len(flow[f].body))
            => flow[f].acc = WholeDecode(flow[f].body)

\* C2: the [DONE] sentinel is never appended to the accumulator and no delta
\* of a line that arrives after [DONE] is appended.
C2_DoneTerminates ==
    \A f \in Flows : ~flow[f].late /\ "[" \notin Range(flow[f].acc)

\* a line of a chunk that carries a payload JSON.parse accepts
IsEventLine(line) == startsWith(line, DataPrefix) /\ JSONparse(slice(line, 6)).ok

EventLines(chunk) == SelectSeq(split(chunk), IsEventLine)

TextOfLines(lines) ==
    Concat([k \in 1..Len(lines) |-> JSONparse(slice(lines[k], 6)).content])

\* the chunk read by a step of call f that stays in the decode loop
ChunkRead(f) == SubSeq(flow[f].body, flow[f].pos + 1, flow'[f].pos)

StaysInLoop(f) ==
    /\ flow[f].pc = "read"
    /\ flow'[f].pc = "read"
    /\ flow'[f].pos > flow[f].pos

\* C3: a data line whose payload fails JSON parsing changes neither the
\* accumulator nor the message list and raises nothing: every chunk read
\* adds exactly the text of its parseable lines, those after a malformed
\* line included, and the call never ends on a decoding exception.
C3_MalformedLineSkipped ==
    /\ [][\A f \in Flows :
            /\ StaysInLoop(f) =>
                 /\ flow'[f].acc = flow[f].acc \o TextOfLines(EventLines(ChunkRead(f)))
                 /\ (TextOfLines(EventLines(ChunkRead(f))) = <<>> => messages' = messages)
            /\ flow'[f].outcome # "thrown"]_vars
    /\ [](\A f \in Flows : flow[f].outcome # "thrown")

C3_Witness ==
    \E f \in Flows : flow[f].pc = "read" /\ flow[f].skipped /\ flow[f].afterBad

IsDeltaLine(line) == IsEventLine(line) /\ JSONparse(slice(line, 6)).content # <<>>

IsStrictPrefix(a, b) == Len(a) < Len(b) /\ SubSeq(b, 1, Len(a)) = a

\* C6: every delta with text is published once, with the assistant message
\* holding the accumulator as it is right after that delta: a chunk with k
\* deltas adds k publications, and the published contents are strictly
\* growing prefixes of the text accumulated in the end.
C6_OnePublicationPerDelta ==
    /\ [][\A f \in Flows :
            StaysInLoop(f) =>
                Len(flow'[f].pubs) =
                    Len(flow[f].pubs) + Len(SelectSeq(split(ChunkRead(f)), IsDeltaLine))]_vars
    /\ [](\A f \in Flows :
            /\ Len(flow[f].pubs) = Len(flow[f].deltas)
            /\ \A k \in 1..Len(flow[f].pubs) :
                 /\ flow[f].pubs[k] = {Concat(SubSeq(flow[f].deltas, 1, k))}
                 /\ k > 1 => \A a \in flow[f].pubs[k - 1], b \in flow[f].pubs[k] :
                                IsStrictPrefix(a, b)
            /\ flow[f].pubs # <<>> => Last(flow[f].pubs) = {flow[f].acc})

C6_Witness ==
    \E f \in Flows :
        /\ flow[f].pc = "read"
        /\ Len(flow[f].pubs) = 2
        /\ flow[f].acc = <<"x", "y">>

----------------------------------------------------------------------------
(* Properties of sendMessage and regenerateMessage (Spec) *)

Finalizes(f) ==
    flow[f].pc = "read" /\ flow'[f].pc = "idle" /\ flow'[f].outcome = "finalized"

StreamFails(f) ==
    flow[f].pc = "read" /\ flow'[f].pc = "idle" /\ flow'[f].outcome = "streamError"

FetchFails(f) ==
    flow[f].pc = "fetch" /\ flow'[f].outcome = "httpError"

\* C4: when reader.read() rejects after a delta was published, handling the
\* failure leaves the message list, with the partial answer, as it is, in
\* sendMessage and in regenerateMessage.
C4_PartialKeptOnStreamFailure ==
    [][\A f \in Flows :
          (StreamFails(f) /\ flow[f].pubs # <<>>) => messages' = messages]_vars

\* C4 as amended: sendMessage leaves the message list as it is; regenerateMessage
\* puts back the list it was called on.
C4_PartialKeptBySendRestoredByRegenerate ==
    [][\A f \in Flows :
          (StreamFails(f) /\ flow[f].pubs # <<>>) =>
              /\ flow[f].op = "send"  => messages' = messages
              /\ flow[f].op = "regen" => messages' = flow[f].saved]_vars

C4_Witness ==
    /\ \E f \in Flows : flow[f].outcome = "streamError" /\ flow[f].op = "send"
    /\ \A f \in Flows : flow[f].op # "regen" /\ flow[f].pc = "idle"
    /\ Len(messages) = 2
    /\ messages[2].role = "assistant"
    /\ messages[2].content = <<"x", "y">>
    /\ ~chat_history.present

C7_NoPlaceholderOnHttpError ==
    [][\A f \in Flows :
          FetchFails(f) =>
              /\ flow'[f].pc = "idle"
              /\ flow'[f].pos = 0 /\ flow'[f].pubs = <<>>
              /\ Range(messages') \subseteq Range(messages) \cup Range(flow[f].saved)
              /\ chat_history' = chat_history]_vars

C7_Witness ==
    \E f \in Flows :
        /\ flow[f].outcome = "httpError"
        /\ flow[f].op = "send"
        /\ messages # <<>>
        /\ \A k \in 1..Len(messages) : messages[k].role = "user"
        /\ ~chat_history.present

----------------------------------------------------------------------------
(* Properties of the task polling loop (SpecImage) *)

NonTerminal(r) == r.ok /\ r.task_status \notin {"SUCCEED", "FAILED"}

\* a step in which a status query settles
QueryAnswered == imgPc = "pollFetch" /\ poll'.queries = poll.queries + 1

\* C8: n status queries answered PENDING or RUNNING and then one answered
\* SUCCEED with output images make generateImageWithAPI return the first
\* output image after exactly n + 1 status queries.
C8_SucceedReturnsFirstImage ==
    [][(QueryAnswered /\ Last(poll'.log).ok
          /\ Last(poll'.log).task_status = "SUCCEED"
          /\ Last(poll'.log).output_images # <<>>) =>
            /\ imgPc' = "saveLocal"
            /\ imgResult' = Return(Last(poll'.log).output_images[1])
            /\ poll'.queries = Len(poll'.log)
            /\ \A k \in 1..(Len(poll'.log) - 1) : NonTerminal(poll'.log[k])]_vars

C8_Witness ==
    /\ imgPc = "saveLocal"
    /\ poll.queries = 3
    /\ poll.log[1].task_status = "RUNNING"
    /\ poll.log[2].task_status = "RUNNING"
    /\ imgResult = Return("https://x/out.png")

\* C9: a status query answered FAILED ends the polling at once with an error
\* that carries the provider's message; no further status query is sent and
\* no record is added to the image history.
C9_FailedStopsPolling ==
    /\ [][(QueryAnswered /\ Last(poll'.log).ok
             /\ Last(poll'.log).task_status = "FAILED") =>
               /\ imgPc' = "idle"
               /\ imgResult'.kind = "throw"
               /\ Last(poll'.log).message # ""
                    => imgResult'.value[2] = Last(poll'.log).message
               /\ history' = history
               /\ image_generation_history' = image_generation_history]_vars
    /\ [][(poll.exit # "none" /\ poll'.exit # "none") => poll'.queries = poll.queries]_vars

C9_Witness ==
    /\ imgPc = "idle"
    /\ poll.exit = "throw"
    /\ imgResult = Throw("ImageGenerationFailed", "quota exceeded")
    /\ history = <<>>

\* C10: the polling loop ends only when a status query returns SUCCEED or
\* FAILED (or the caller cancels).
C10_EndsOnlyOnTerminalState ==
    poll.exit # "none" =>
        Last(poll.log).ok /\ Last(poll.log).task_status \in {"SUCCEED", "FAILED"}

\* C10 as amended: the loop ends only when a status query returns SUCCEED or
\* FAILED or the query itself fails; a query answered with a status that is
\* not terminal is always followed by a further round, however many came
\* before, and every query comes after a wait of the 5 second interval.
C10_EndsOnTerminalStateOrQueryFailure ==
    /\ [](poll.exit # "none" => ~NonTerminal(Last(poll.log)))
    /\ [][(QueryAnswered /\ NonTerminal(Last(poll'.log)))
            => (imgPc' = "pollWait" /\ poll'.exit = "none")]_vars
    /\ [](/\ poll.waits = poll.queries + (IF imgPc = "pollFetch" THEN 1 ELSE 0)
          /\ poll.elapsed = PollInterval * poll.waits)

C10_Witness ==
    /\ poll.exit = "throw"
    /\ poll.queries >= 2
    /\ ~Last(poll.log).ok
    /\ \A k \in 1..(Len(poll.log) - 1) : NonTerminal(poll.log[k])

----------------------------------------------------------------------------
(* Properties of the image history (SpecImage) *)

\* a step in which handleGenerate puts its record into the history
RecordAppended == imgPc = "saveLocal" /\ imgPc' = "idle"

\* C11: appending a record to the image history puts the new record first and
\* keeps the previous records in their order, truncated to 50: on a log of 50
\* the result has 50 records, the new one first, and exactly the oldest (last)
\* record is gone.
C11_AppendNewestFirstCappedAt50 ==
    [][RecordAppended =>
        LET old == image_generation_history.items
            new == image_generation_history'.items
        IN  /\ Len(new) = (IF Len(old) < HistoryCap THEN Len(old) + 1 ELSE HistoryCap)
            /\ new[1].id = now'
            /\ new[1].image.url = imgResult.value[1]
            /\ \A k \in 2..Len(new) : new[k] = old[k - 1]
            /\ history' = new]_vars

C11_Witness ==
    /\ Len(history) = HistoryCap
    /\ history[1].id >= 0
    /\ history[2].id = 0 - 1
    /\ history[HistoryCap].id = 0 - (HistoryCap - 1)
    /\ image_generation_history = Stored(history)

----------------------------------------------------------------------------
(* Properties of the stored logs and of the ids (SpecSession, Spec) *)

\* C12: each persisted history log (the chat log under 'chat_history', the
\* image log under 'image_generation_history') holds at most 50 records in
\* every reachable state, after any sequence of sends, regenerations,
\* generations and deletions.
C12_LogsWithinCapacity ==
    /\ Len(chat_history.items) <= HistoryCap
    /\ Len(image_generation_history.items) <= HistoryCap


DistinctIds(list) ==
    \A i, j \in 1..Len(list) : i # j => list[i].id # list[j].id

\* C13: no history log ever contains two entries with the same id: with ids
\* taken from the millisecond clock (user id = now, assistant id = now + 1,
\* regenerated id = now, record id = now) and a clock that need not advance
\* between two operations, all ids in the message list and in the image
\* history are pairwise distinct.
C13_IdsPairwiseDistinct ==
    /\ DistinctIds(messages)
    /\ DistinctIds(history)

----------------------------------------------------------------------------
(* Properties of the image requests and responses (SpecImage) *)

\* generateImageWithAPI has sent its first request and waits or polls
RequestSent == imgCall.request.url # "none"

\* C14: the image-generation request built by generateImageWithAPI carries the
\* reference images: with exactly one the body has a singular `image` field
\* holding it and no `images` field; with two or more it has a plural `images`
\* field holding all of them in their order and no `image` field; with none
\* it has neither field.
C14_ReferencesCarried ==
    RequestSent =>
        LET refs == imgCall.refs
            body == imgCall.request.body
        IN  /\ Len(refs) = 1 => (body.image = Field(refs[1]) /\ body.images = Absent)
            /\ Len(refs) >= 2 => (body.images = Field(refs) /\ body.image = Absent)
            /\ Len(refs) = 0 => (body.image = Absent /\ body.images = Absent)


\* the URLs a response offers under the known shapes data[0].url,
\* images[0].url and url, in that order
OfferedUrls(r) ==
    SelectSeq((IF Len(r.data) > 0 THEN <<r.data[1]>> ELSE <<>>)
              \o (IF Len(r.images) > 0 THEN <<r.images[1]>> ELSE <<>>)
              \o <<r.url>>,
              LAMBDA u : u # "")

\* C15: on a 2xx image-generation response the image URL is extracted by
\* trying the shapes data[0].url, images[0].url, url in that order and taking
\* the first that matches; if none of them yields a URL the call fails with a
\* malformed-response error, so a successful call never returns an undefined or
\* empty URL.
C15_FirstMatchingShapeOrError ==
    /\ [][\A r \in GenResponses : (r.ok /\ GenResponse(r)) =>
            IF OfferedUrls(r) # <<>>
            THEN imgPc' = "saveLocal" /\ imgResult' = Return(Head(OfferedUrls(r)))
            ELSE imgPc' = "idle" /\ imgResult'.kind = "throw"]_vars
    /\ [](imgResult.kind = "return" => imgResult.value[1] # "")

----------------------------------------------------------------------------
(* Properties of the chat request (SpecSession) *)

\* a step in which sendMessage or regenerateMessage sends its request
CallStarts(f) == flow[f].pc = "idle" /\ flow'[f].pc = "fetch"

\* C16: the `messages` field of the chat request depends on the selected
\* model: for a model without vision it is the whole message list up to and
\* including the user message, in order, each message reduced to its role and
\* content; for a vision model it is a single user message whose content is
\* the text part (if the text is not empty) followed by one image part per
\* attached image, in the order of attachment.
C16_RequestMessagesByModel ==
    [][\A f \in Flows : CallStarts(f) =>
        LET req   == flow'[f].req
            list  == messages'
            user  == Last(list)
            nText == IF user.content # <<>> THEN 1 ELSE 0
        IN  /\ user.role = "user"
            /\ IF flow'[f].vision
               THEN /\ Len(req) = 1
                    /\ req[1].role = "user"
                    /\ Len(req[1].parts) = nText + Len(user.images)
                    /\ nText = 1 => /\ req[1].parts[1].type = "text"
                                    /\ req[1].parts[1].text = user.content
                    /\ \A k \in 1..Len(user.images) :
                          /\ req[1].parts[nText + k].type = "image_url"
                          /\ req[1].parts[nText + k].url = user.images[k]
               ELSE /\ Len(req) = Len(list)
                    /\ \A k \in 1..Len(list) :
                          /\ req[k].role = list[k].role
                          /\ req[k].content = list[k].content
                          /\ req[k].parts = <<>>]_vars

C16_Witness ==
    /\ flow[1].pc = "fetch"
    /\ flow[1].vision
    /\ Len(messages) = HistoryCap + 1
    /\ Last(messages).images =
          <<"data:image/png;base64,AA", "data:image/png;base64,BB">>
    /\ Len(flow[1].req) = 1
    /\ Len(flow[1].req[1].parts) = 3

----------------------------------------------------------------------------
(* Properties of the image-edit request (SpecImage) *)

\* the request of the image-edit branch is out
EditRequestSent == imgCall.request.url = "v1/images/generations"

\* C17: an image-edit request never carries an inline data URL as its
\* reference image: whatever reference images the user uploaded (uploads are
\* stored as data URLs), the `image_url` sent to the asynchronous image-edit
\* endpoint is a remote http(s) URL, the data URL having been substituted
\* before the request is sent.
C17_EditRequestWithoutDataUrl ==
    EditRequestSent =>
        LET body == imgCall.request.body
        IN  /\ imgCall.refs # <<>>
            /\ \A k \in 1..Len(imgCall.refs) : imgCall.refs[k] \in DataUrls
            /\ Len(body.image_url) = 1
            /\ body.image_url[1] \notin DataUrls
            /\ body.image_url[1] = TestImageUrl
            /\ body.image = Absent
            /\ body.images = Absent

C17_Witness ==
    /\ imgPc = "editFetch"
    /\ EditRequestSent
    /\ imgCall.type = "image-edit"
    /\ imgCall.refs = <<"data:image/png;base64,BB", "data:image/png;base64,AA">>
    /\ imgCall.request.body.image_url = Field(TestImageUrl)

----------------------------------------------------------------------------
(* Properties of the handlers of both views (Spec) *)

\* C18: when the provider of the selected model has no API key (none stored,
\* or one that does not decrypt), sendMessage, regenerateMessage and
\* handleGenerate are blocked before sending: no HTTP request is issued and
\* nothing is written to persisted history.
C18_NoKeyNoRequestNoWrite ==
    [][/\ \A f \in Flows, text \in Texts, t \in 0..MaxNow :
            SendMessage(Flows, f, text, <<>>, FALSE, "", t)
                => UNCHANGED <<flow, loading, chat_history>>
       /\ \A f \in Flows, id \in AssistantIds :
            RegenerateMessage(Flows, f, id, FALSE, "")
                => UNCHANGED <<flow, loading, chat_history>>
       /\ \A prompt \in Prompts, hasModel \in BOOLEAN, type \in ModelTypes,
             refs \in ReferenceLists :
            handleGenerate(prompt, hasModel, type, refs, "")
                => /\ imgPc' = "idle"
                   /\ ~RequestSent'
                   /\ ~imgLoading'
                   /\ UNCHANGED <<history, image_generation_history>>]_vars

\* regenerateMessage without a key has taken the reply off the list that is
\* shown, sent nothing and left the stored log as it was
C18_Witness ==
    /\ \A f \in Flows : flow[f].pc = "idle" /\ flow[f].op \in {"none", "send"}
    /\ ~loading
    /\ chat_history.present
    /\ Len(chat_history.items) = 2
    /\ chat_history.items[2].role = "assistant"
    /\ messages = <<chat_history.items[1]>>
    /\ ops = MaxOps


\* a step in which a running sendMessage or regenerateMessage call ends in
\* its catch block
ChatCallFails(f) ==
    /\ flow[f].pc \in {"fetch", "read"}
    /\ flow'[f].pc = "idle"
    /\ flow'[f].outcome \in {"httpError", "streamError", "thrown"}

\* a step in which a running handleGenerate call ends in its catch block
ImageCallFails == imgPc # "idle" /\ imgResult'.kind = "throw"

\* C19: every failure path of sendMessage, regenerateMessage and handleGenerate
\* (missing key, response that is not 2xx, malformed response, failure in the
\* middle of the stream, failed task, failed status query) ends with the
\* component back in the idle state: `loading` is false and a further user
\* action is accepted; no failure leaves `loading` true for ever.
C19_FailureEndsIdle ==
    /\ [][/\ \A f \in Flows : ChatCallFails(f) => ~loading'
          /\ ImageCallFails => (imgPc' = "idle" /\ ~imgLoading')
          /\ \A prompt \in Prompts, type \in ModelTypes, refs \in ReferenceLists :
                handleGenerate(prompt, TRUE, type, refs, "")
                    => (imgPc' = "idle" /\ ~imgLoading')]_vars
    /\ [](loading => \E f \in Flows : flow[f].pc # "idle")
    /\ [](imgLoading => imgPc # "idle")

C19_Witness ==
    /\ flow[1].pc = "idle"
    /\ flow[1].outcome = "streamError"
    /\ flow[2].pc = "idle"
    /\ flow[2].outcome = "httpError"
    /\ ~loading


InFlight == {f \in Flows : flow[f].pc # "idle"}

\* C20: at most one chat request is in flight at any time: while a sendMessage
\* or regenerateMessage call awaits its response or reads its stream
\* (`loading` is true), no second sendMessage or regenerateMessage can start,
\* whichever user action triggers it (send button, Enter key in the text area,
\* regenerate button).
C20_OneChatRequestInFlight ==
    /\ [](Cardinality(InFlight) <= 1)
    /\ [][\A f \in Flows : (loading /\ InFlight # {}) => ~CallStarts(f)]_vars

----------------------------------------------------------------------------
(* Properties of the history logs and of the uploads (SpecImage, SpecSession) *)

\* new is old without the entries of one id, or without any entry, or old
Removal(old, new) ==
    \/ new = old
    \/ new = <<>>
    \/ \E k \in 1..Len(old) : new = SelectSeq(old, LAMBDA item : item.id # old[k].id)

\* C21: a record enters the image history only after a successful
\* generation: a handleGenerate call that fails (missing key, failed request,
\* response without an image, failed task or status query) leaves the stored
\* and the shown history as they are, no step other than the end of a
\* successful call adds a record, and that step adds exactly one record, in
\* front, whose image is the local copy of the returned image or the returned
\* URL when the local copy failed.
C21_RecordOnlyAfterSuccess ==
    [][/\ ImageCallFails => UNCHANGED <<history, image_generation_history>>
       /\ (imgPc = "idle" /\ ops' # ops /\ imgResult'.kind = "throw") =>
             \A prompt \in Prompts, type \in ModelTypes, refs \in ReferenceLists :
                handleGenerate(prompt, TRUE, type, refs, "")
                    => UNCHANGED <<history, image_generation_history>>
       /\ ~RecordAppended => Removal(history, history')
       /\ RecordAppended =>
             /\ imgResult.kind = "return"
             /\ history' # <<>>
             /\ history'[1].id = now'
             /\ history'[1].image.url = imgResult.value[1]
             /\ history'[1].image.blob \in BOOLEAN
             /\ \A k \in 2..Len(history') : history'[k] = history[k - 1]
             /\ Len(history') >= Len(history)
             /\ Len(history') <= Len(history) + 1
             /\ image_generation_history' = Stored(history')]_vars

C21_Witness ==
    /\ imgPc = "idle"
    /\ imgResult = Return("https://x/out2.png")
    /\ Len(history) = 2
    /\ history[1].image = [blob |-> FALSE, url |-> "https://x/out2.png"]
    /\ history[2].image.blob
    /\ image_generation_history = Stored(history)

\* one of the entries of old is removed with every entry of its id, the others
\* keep their order, and the list is written under the key; or the list is
\* emptied and the key removed
RemovedOrCleared(old, new, key) ==
    \/ \E k \in 1..Len(old) :
          /\ new = SelectSeq(old, LAMBDA item : item.id # old[k].id)
          /\ key = Stored(new)
    \/ new = <<>> /\ key = NoItem

\* C24: a step that changes a log is a remove or a clear of that log alone:
\* remove drops exactly the entries of one id and keeps the others in order,
\* and writes the list under the key of the log; clear empties the list and
\* removes the key of the log. The other logs, their keys and 'api_config'
\* stay as they are. (The logs are the message list of the chat view, the
\* history of the image view, and the three lists of the history page.)
C24_RemoveClearFrame ==
    [][/\ api_config' = api_config
       /\ (messages' # messages \/ chat_history' # chat_history) =>
             /\ RemovedOrCleared(messages, messages', chat_history')
             /\ UNCHANGED <<history, image_generation_history, pageVars>>
       /\ history' # history =>
             /\ RemovedOrCleared(history, history', image_generation_history')
             /\ UNCHANGED <<messages, chat_history, pageVars>>
       /\ (PageClosed /\ image_generation_history' # image_generation_history) =>
             RemovedOrCleared(history, history', image_generation_history')
       /\ (~PageClosed /\ generationHistory'.chatType = generationHistory.chatType) =>
             /\ UNCHANGED <<messages, chat_history, history>>
             /\ \/ UNCHANGED <<image_generation_history, pageVars>>
                \/ /\ PageShows("text")
                   /\ RemovedOrCleared(generationHistory.textHistory,
                                       generationHistory'.textHistory,
                                       text_chat_history')
                   /\ generationHistory' =
                         [generationHistory EXCEPT
                            !.textHistory = generationHistory'.textHistory]
                   /\ UNCHANGED <<vision_chat_history, image_generation_history>>
                \/ /\ PageShows("vision")
                   /\ RemovedOrCleared(generationHistory.visionHistory,
                                       generationHistory'.visionHistory,
                                       vision_chat_history')
                   /\ generationHistory' =
                         [generationHistory EXCEPT
                            !.visionHistory = generationHistory'.visionHistory]
                   /\ UNCHANGED <<text_chat_history, image_generation_history>>
                \/ /\ PageShows("image")
                   /\ RemovedOrCleared(generationHistory.imageHistory,
                                       generationHistory'.imageHistory,
                                       image_generation_history')
                   /\ generationHistory' =
                         [generationHistory EXCEPT
                            !.imageHistory = generationHistory'.imageHistory]
                   /\ UNCHANGED <<text_chat_history, vision_chat_history>>
       /\ generationHistory'.chatType # generationHistory.chatType =>
             UNCHANGED <<messages, chat_history, history, image_generation_history,
                         text_chat_history, vision_chat_history>>]_vars

\* the history page has removed the two messages of one id from the text
\* log, and the vision log, the image log and the saved keys are as stored
C24_Witness ==
    /\ PageShows("text")
    /\ generationHistory.textHistory = <<Message(0 - 1, "assistant", <<"y">>)>>
    /\ text_chat_history = Stored(generationHistory.textHistory)
    /\ Len(ParsedLog(vision_chat_history)) = 3
    /\ Len(ParsedLog(image_generation_history)) = 3
    /\ Len(ParsedLog(chat_history)) = 3
    /\ api_config = [p \in Providers |-> <<encryptApiKey("sk-local")>>]

----------------------------------------------------------------------------
(* Properties of the configuration (SpecConfig) *)

\* the key saved under 'api_config' for a provider, decrypted ('' when none)
LocalKey(p) ==
    IF api_config[p] = <<>> THEN "" ELSE decryptApiKey(api_config[p][1])

\* C22: initializeConfig loads the catalog once: whatever the number of
\* callers, /providers.json is fetched at most once and providersConfig is
\* assigned at most once, so a key set by updateProviderApiKey is still the
\* key of its provider afterwards.
C22_LoadedOnce ==
    /\ cfgLog.fetches <= 1
    /\ cfgLog.assigns <= 1
    /\ \A p \in Providers :
          cfgLog.set[p] # <<>> => getProviderConfig(p) = cfgLog.set[p][1]

\* C23: once the catalog is loaded, the key a chat or image request uses for
\* a provider is the key saved locally for it whenever that key is not empty;
\* the catalog key is used only when no local key is saved.
C23_LocalKeyFirst ==
    \A p \in Providers :
        (HasProvider(providersConfig, p) /\ LocalKey(p) # "")
            => getProviderConfig(p) = LocalKey(p)

----------------------------------------------------------------------------
(* Properties of the pending uploads (SpecUpload) *)

\* C25: the list of pending uploaded images never holds more than 3 files,
\* whatever files are selected and whenever their readers finish.
C25_AtMostThreeUploads ==
    Len(uploadedFiles) <= UploadCap

----------------------------------------------------------------------------
(* Properties of the message list under regeneration, streaming and removal
   (Spec, SpecSession) *)

\* C26: a regenerateMessage call that does not complete leaves the visible
\* list as it was before the call, the original reply included, and leaves
\* 'chat_history' as it is: when it returns for a missing key (or model), and
\* when it ends in its catch block after a failed response or a failed read.
C26_FailedRegenerateRestores ==
    [][/\ \A id \in AssistantIds, supportsImages \in BOOLEAN :
             RegenerateMessage({1}, 1, id, supportsImages, "")
                 => (messages' = messages /\ chat_history' = chat_history)
       /\ (/\ flow[1].op = "regen"
           /\ flow[1].pc # "idle"
           /\ flow'[1].outcome \in {"httpError", "streamError", "thrown"})
             => (messages' = flow[1].saved /\ chat_history' = chat_history)]_vars

\* the positions of the list whose content a step changes
Rewritten == {k \in 1..Len(messages) : messages'[k].content # messages[k].content}

\* C27: a publication of a streaming call changes nothing but the content of
\* its assistant message: the list keeps its length and order, every message
\* keeps its id and role, and at most one message, an assistant message with
\* the id of the call, gets a new content.
C27_PublicationTouchesOnlyItsMessage ==
    [][\A f \in Flows :
          (flow[f].pc = "read" /\ flow'[f].pc = "read" /\ flow'[f].pos > flow[f].pos) =>
             /\ Len(messages') = Len(messages)
             /\ \A k \in 1..Len(messages) :
                   /\ messages'[k].id = messages[k].id
                   /\ messages'[k].role = messages[k].role
                   /\ messages'[k].images = messages[k].images
             /\ Cardinality(Rewritten) <= 1
             /\ \A k \in Rewritten :
                   messages[k].id = flow[f].aid /\ messages[k].role = "assistant"]_vars

\* C28: what was removed from the list while a reply streamed stays removed
\* when the stream is finalized: the finalized list and the list written to
\* 'chat_history' hold no message that was not in the list just before.
C28_RemovalDurableOverFinalize ==
    [][(flow[1].pc = "read" /\ flow'[1].outcome = "finalized") =>
          /\ IdsOf(messages') \subseteq IdsOf(messages)
          /\ IdsOf(ParsedLog(chat_history')) \subseteq IdsOf(messages)]_vars

\* C29: whenever `loading` is false the visible list is the list stored under
\* 'chat_history' (the empty list when the key is absent).
C29_VisibleIsPersistedWhenIdle ==
    ~loading => messages = ParsedLog(chat_history)

\* the index regenerateMessage finds names a reply with a user message before it
Regenerable(msgs, messageIndex) ==
    messageIndex > 1 /\ msgs[messageIndex - 1].role = "user"

====
